---- MODULE Spec2Model ----
(***************************************************************************)
(* Incremental batch ingestion (src/loader.py) against the file-serving    *)
(* API (src/batch_api/app.py) and the ORDERS table of the warehouse.       *)
(*                                                                         *)
(* Python strings are modelled as sequences of one-character strings, so   *)
(* that int(), str.strip() and str.upper() are computed, not assumed.      *)
(***************************************************************************)
EXTENDS Integers, Sequences, FiniteSets, TLC

\* ------------------------------------------------------------- bounds
\* longest batch list served by the API
MaxIds == 2
\* number of consecutive executions of the loader in one behaviour
MaxRuns == 2
\* longest CSV header and most data rows of the payload of a direct call
MaxCols == 3
MaxRows == 2

\* ------------------------------------------------------------ strings
Lower == <<"a","b","c","d","e","f","g","h","i","j","k","l","m",
           "n","o","p","q","r","s","t","u","v","w","x","y","z">>
Upper == <<"A","B","C","D","E","F","G","H","I","J","K","L","M",
           "N","O","P","Q","R","S","T","U","V","W","X","Y","Z">>
Digits == <<"0","1","2","3","4","5","6","7","8","9">>
Whitespace == {" ", "\t"}

\* the upper-case letter of each lower-case letter
UpperOf ==
  [c \in {Lower[i] : i \in 1..Len(Lower)} |->
     Upper[CHOOSE i \in 1..Len(Lower) : Lower[i] = c]]

\* str.upper() on one character
UpperChar(c) == IF c \in DOMAIN UpperOf THEN UpperOf[c] ELSE c

\* str.upper()
StrUpper(s) == [i \in 1..Len(s) |-> UpperChar(s[i])]

RECURSIVE LStrip(_)
LStrip(s) ==
  IF s # <<>> /\ Head(s) \in Whitespace THEN LStrip(Tail(s)) ELSE s

RECURSIVE RStrip(_)
RStrip(s) ==
  IF s # <<>> /\ s[Len(s)] \in Whitespace
  THEN RStrip(SubSeq(s, 1, Len(s) - 1)) ELSE s

\* str.strip()
StrStrip(s) == RStrip(LStrip(s))

\* the value of each decimal digit
DigitOf ==
  [c \in {Digits[i] : i \in 1..Len(Digits)} |->
     (CHOOSE i \in 1..Len(Digits) : Digits[i] = c) - 1]

IsDigit(c) == c \in DOMAIN DigitOf
DigitVal(c) == DigitOf[c]

\* int(s) succeeds (over the alphabet of IdSet: a non-empty run of digits)
CanInt(s) == s # <<>> /\ \A i \in 1..Len(s) : IsDigit(s[i])

RECURSIVE IntOf(_)
\* int(s) for a string int() accepts
IntOf(s) ==
  IF s = <<>> THEN 0
  ELSE 10 * IntOf(SubSeq(s, 1, Len(s) - 1)) + DigitVal(s[Len(s)])

\* --------------------------------------------------------- column names
BATCH_ID == <<"B","A","T","C","H","_","I","D">>
ORDER_ID == <<"O","R","D","E","R","_","I","D">>
AMOUNT   == <<"A","M","O","U","N","T">>
\* the columns of table ORDERS
TableColumns == {BATCH_ID, ORDER_ID, AMOUNT}
\* the columns ingest_batch selects, in its order
Selected == <<BATCH_ID, ORDER_ID, AMOUNT>>

\* header spellings a payload may carry
h_order_id_sp  == <<" ","o","r","d","e","r","_","i","d"," ">>
h_Order_Id_tab == <<"\t","O","r","d","e","r","_","I","d">>
h_Amount       == <<"A","m","o","u","n","t">>
h_order_sp_id  == <<"o","r","d","e","r"," ","i","d">>
h_note         == <<"n","o","t","e">>
h_batch_id     == <<"b","a","t","c","h","_","i","d">>
RawCols == {h_order_id_sp, h_Order_Id_tab, h_Amount, h_order_sp_id, h_note,
            h_batch_id}

\* batch identifiers as the API's batch list may spell them
IdSet == { <<"1">>, <<"0","2">>, <<"x">> }

\* ------------------------------------------------ the API (batch_api/app.py)
\* a file of the API's data directory: absent, zero bytes, or a CSV with a
\* header line and nrows data lines
NoFile    == [kind |-> "missing", header |-> <<>>, nrows |-> 0]
EmptyFile == [kind |-> "empty", header |-> <<>>, nrows |-> 0]
CsvFile(h, n) == [kind |-> "csv", header |-> h, nrows |-> n]

\* GET /api/batch_data/<batch_id>: 404 unless data/<batch_id>.csv is a file
get_batch_data(dir, batch_id) ==
  IF dir[batch_id].kind = "missing"
  THEN [status |-> 404, body |-> NoFile]
  ELSE [status |-> 200, body |-> dir[batch_id]]

\* GET /api/batches/batch_list.csv: the file as it is (an error status when
\* the file is absent)
get_batch_list(list) ==
  IF list.kind = "missing"
  THEN [status |-> 500, body |-> list]
  ELSE [status |-> 200, body |-> list]

\* -------------------------------------------------------- pandas frames
\* the value of data line r, field j of the payload fetched for lit
Cell(lit, r, j) == <<lit, r, j>>

\* number of earlier columns spelled exactly like column j
Earlier(h, j) == Cardinality({k \in 1..(j - 1) : h[k] = h[j]})

\* pd.read_csv renames the k-th repeat of a header name to name.k
Mangle(h) ==
  [j \in 1..Len(h) |->
     IF Earlier(h, j) = 0 THEN h[j]
     ELSE h[j] \o <<".", Digits[Earlier(h, j) + 1]>>]

\* pd.read_csv(StringIO(r.text)) of a parseable body
ReadCsv(lit, body) ==
  [cols |-> Mangle(body.header),
   rows |-> [r \in 1..body.nrows |->
               [j \in 1..Len(body.header) |-> Cell(lit, r, j)]]]

\* the normalisation without strip(): [col.upper() for col in df.columns]
NormalizeColumns_NoStrip(df) ==
  [df EXCEPT !.cols = [j \in 1..Len(df.cols) |-> StrUpper(df.cols[j])]]

\* df.columns = [col.strip().upper() for col in df.columns]
NormalizeColumns(df) ==
  [df EXCEPT !.cols = [j \in 1..Len(df.cols) |-> StrUpper(StrStrip(df.cols[j]))]]

HasColumn(df, name) == \E j \in 1..Len(df.cols) : df.cols[j] = name

\* df[name] = v: every column so named is overwritten, else one is appended
SetColumn(df, name, v) ==
  IF HasColumn(df, name)
  THEN [df EXCEPT !.rows =
          [r \in 1..Len(df.rows) |->
             [j \in 1..Len(df.cols) |->
                IF df.cols[j] = name THEN v ELSE df.rows[r][j]]]]
  ELSE [cols |-> Append(df.cols, name),
        rows |-> [r \in 1..Len(df.rows) |-> Append(df.rows[r], v)]]

RECURSIVE Positions(_, _, _)
\* the positions of the columns df[wanted[k..]] picks, in order: every
\* column that carries a wanted name
Positions(cols, wanted, k) ==
  IF k > Len(wanted) THEN <<>>
  ELSE LET RECURSIVE Hits(_)
           Hits(j) == IF j > Len(cols) THEN <<>>
                      ELSE (IF cols[j] = wanted[k] THEN <<j>> ELSE <<>>)
                           \o Hits(j + 1)
       IN Hits(1) \o Positions(cols, wanted, k + 1)

\* df[wanted] raises KeyError unless every wanted name is a column
CanSelect(df, wanted) == \A k \in 1..Len(wanted) : HasColumn(df, wanted[k])

\* df[wanted]
SelectColumns(df, wanted) ==
  LET pos == Positions(df.cols, wanted, 1)
  IN [cols |-> [i \in 1..Len(pos) |-> df.cols[pos[i]]],
      rows |-> [r \in 1..Len(df.rows) |->
                  [i \in 1..Len(pos) |-> df.rows[r][pos[i]]]]]

\* ---------------------------------------------- the warehouse (ORDERS)
NoDuplicates(cols) ==
  \A i, j \in 1..Len(cols) : cols[i] = cols[j] => i = j

\* write_pandas on a connection that is silently re-opened when it is down
CanWrite_Reconnects(frame, up, wr) ==
  /\ wr = "ok"
  /\ NoDuplicates(frame.cols)
  /\ \A j \in 1..Len(frame.cols) : frame.cols[j] \in TableColumns

\* write_pandas can load the frame: the connection is up, the load itself
\* goes through, the frame's column names are distinct (parquet needs that)
\* and each is a column of the table
CanWrite(frame, up, wr) ==
  /\ up
  /\ wr = "ok"
  /\ NoDuplicates(frame.cols)
  /\ \A j \in 1..Len(frame.cols) : frame.cols[j] \in TableColumns

\* a load that loses the frame's last row
FrameRows_DropLast(frame) ==
  [r \in 1..(Len(frame.rows) - 1) |->
     [c \in TableColumns |->
        frame.rows[r][CHOOSE j \in 1..Len(frame.cols) : frame.cols[j] = c]]]

\* the table rows write_pandas appends for the frame
FrameRows(frame) ==
  [r \in 1..Len(frame.rows) |->
     [c \in TableColumns |->
        frame.rows[r][CHOOSE j \in 1..Len(frame.cols) : frame.cols[j] = c]]]

\* {row for row in cur.fetchall()}: a set of row tuples, which holds no int
DistinctBatchIds_Rows(table) == {}

\* SELECT DISTINCT BATCH_ID FROM ORDERS, as a set
DistinctBatchIds(table) == {table[i][BATCH_ID] : i \in 1..Len(table)}

\* ----------------------------------------------------------- loader.py
RECURSIVE IntToStr(_)
\* str(n) for n >= 0
IntToStr(n) ==
  IF n < 10 THEN <<Digits[n + 1]>>
  ELSE IntToStr(n \div 10) \o <<Digits[(n % 10) + 1]>>

\* df["batch_id"].astype(str).tolist(): read_csv makes the column int64 when
\* every cell parses as an integer, and keeps the cells' text otherwise
AsStrList(cells) ==
  IF cells # <<>> /\ \A i \in 1..Len(cells) : CanInt(cells[i])
  THEN [i \in 1..Len(cells) |-> IntToStr(IntOf(cells[i]))]
  ELSE cells

\* the batch list file: absent, zero bytes, or one column named column
NoList    == [kind |-> "missing", column |-> <<>>, cells |-> <<>>]
EmptyList == [kind |-> "empty", column |-> <<>>, cells |-> <<>>]
CsvList(c, ids) == [kind |-> "csv", column |-> c, cells |-> ids]

\* get_batch_ids() without the KeyError of df["batch_id"]: the first column
\* is taken whatever its name
BatchIdsOk_AnyColumn(list, net) ==
  /\ net
  /\ get_batch_list(list).status < 400
  /\ list.kind = "csv"

\* get_batch_ids() returns (does not raise) on this response
BatchIdsOk(list, net) ==
  /\ net
  /\ get_batch_list(list).status < 400
  /\ list.kind = "csv"
  /\ list.column = h_batch_id

\* the list get_batch_ids() returns
BatchIdsOf(list) == AsStrList(get_batch_list(list).body.cells)

Failed(stage) ==
  [ok |-> FALSE, stage |-> stage, cols |-> <<>>, rows |-> <<>>, reported |-> 0]

\* ingest_batch(batch_id) against data directory dir; net: the request gets
\* through; wr: what the load does ("ok", "error", "drop"); up: the
\* connection is up.  stage names the statement that raised.
ingest_batch(batch_id, dir, net, wr, up) ==
  LET r == get_batch_data(dir, batch_id)
  IN IF ~net \/ r.status >= 400 THEN Failed("fetch")
     ELSE IF r.body.kind # "csv" THEN Failed("parse")
     ELSE LET df == NormalizeColumns(ReadCsv(batch_id, r.body))
          IN IF ~CanInt(batch_id) THEN Failed("int")
             ELSE LET tagged == SetColumn(df, BATCH_ID, IntOf(batch_id))
                  IN IF ~CanSelect(tagged, Selected) THEN Failed("select")
                     ELSE LET frame == SelectColumns(tagged, Selected)
                          IN IF ~CanWrite(frame, up, wr) THEN Failed("write")
                             ELSE [ok |-> TRUE, stage |-> "loaded",
                                   cols |-> frame.cols,
                                   rows |-> FrameRows(frame),
                                   reported |-> Len(tagged.rows)]

\* the loop's test on the identifier's text: batch_id in the loaded values
\* written out as str
AlreadyLoaded_Text(batch_id, loaded_batches) ==
  batch_id \in {IntToStr(v) : v \in loaded_batches}

\* the loop's test without int(): batch_id in loaded_batches, a str among
\* ints, is never true
AlreadyLoaded_NoInt(batch_id, loaded_batches) == FALSE

\* the loop's test: int(batch_id) in loaded_batches
AlreadyLoaded(batch_id, loaded_batches) == IntOf(batch_id) \in loaded_batches

\* --------------------------------------------------------------- state
VARIABLES
  batch_list,      \* the API's batch_list.csv
  data_dir,        \* the API's data directory: identifier text -> file
  table,           \* the rows of ORDERS, oldest first
  connUp,          \* the process-wide connection conn is usable
  run,             \* which execution of the loader this is
  pc,              \* where __main__ stands: start, discover, loop, done,
                   \* aborted (an exception left __main__), call (a direct
                   \* call of ingest_batch is about to be made)
  loaded_batches,  \* the set read at line 53
  ids,             \* the list get_batch_ids() returned at line 56
  idx,             \* position of the for loop in ids
  out,             \* per position of ids: what the loop did with it
  err,             \* the exception that left __main__, "none" if none
  before,          \* ORDERS as it was when the latest ingest_batch began
  dropIdx,         \* position whose write lost the connection, 0 if none
  prev             \* ids, out and pc of the previous execution

vars == <<batch_list, data_dir, table, connUp, run, pc, loaded_batches, ids,
          idx, out, err, before, dropIdx, prev>>

\* called: ingest_batch was called for the position (its first statement is
\* the GET); writes: write_pandas calls of it that went through; cols: the
\* columns of the frame written; nrows: rows it left in ORDERS; reported: the
\* count it printed
Pending == [st |-> "pending", stage |-> "none", called |-> FALSE,
            writes |-> 0, cols |-> <<>>, nrows |-> 0, reported |-> -1]

SeqsUpTo(S, n) == UNION {[1..k -> S] : k \in 0..n}

Range(f) == {f[i] : i \in DOMAIN f}

\* a row ORDERS held before the loader first ran
OldRow(b, k) ==
  [c \in TableColumns |-> IF c = BATCH_ID THEN b ELSE <<<<"o","l","d">>, k, 0>>]

InitTables == { <<>>, <<OldRow(1, 1), OldRow(1, 2)>> }

\* the files the data directory may hold for an identifier
RunHeader == <<h_order_id_sp, h_Amount, h_note>>
RunFiles == { NoFile, EmptyFile, CsvFile(RunHeader, 1), CsvFile(RunHeader, 0),
              CsvFile(<<h_order_id_sp>>, 1) }

ListFiles ==
  {NoList, EmptyList, CsvList(BATCH_ID, << <<"1">> >>)}
    \cup {CsvList(h_batch_id, cells) : cells \in SeqsUpTo(IdSet, MaxIds)}

\* the file names (without .csv) the data directory is modelled for: each
\* spelling and what astype(str) can make of it
DirNames == IdSet \cup {IntToStr(IntOf(l)) : l \in {m \in IdSet : CanInt(m)}}

\* identifiers the loader can ever request from the data directory: those
\* of the list up to its first entry that is no integer
Requested(list) ==
  LET l == BatchIdsOf(list)
  IN IF BatchIdsOk(list, TRUE)
     THEN {l[i] : i \in {k \in DOMAIN l : \A m \in 1..k : CanInt(l[m])}}
     ELSE {}

FreshRun ==
  /\ pc = "start"
  /\ connUp = TRUE
  /\ loaded_batches = {}
  /\ ids = <<>>
  /\ idx = 1
  /\ out = <<>>
  /\ err = "none"
  /\ dropIdx = 0

\* the loader is started against some batch list, data directory and table;
\* files nobody requests are left out of the directory
Init ==
  /\ batch_list \in ListFiles
  /\ data_dir \in [DirNames -> RunFiles]
  /\ \A l \in DirNames \ Requested(batch_list) : data_dir[l] = NoFile
  /\ table \in InitTables
  /\ run = 1
  /\ FreshRun
  /\ before = table
  /\ prev = [ids |-> <<>>, out |-> <<>>, pc |-> "none"]

Env == <<batch_list, data_dir>>

\* line 53: loaded_batches = get_loaded_batches(); a failing query raises
get_loaded_batches ==
  /\ pc = "start"
  /\ \E ok \in BOOLEAN :
       IF ok /\ connUp
       THEN /\ loaded_batches' = DistinctBatchIds(table)
            /\ pc' = "discover"
            /\ err' = err
       ELSE /\ pc' = "aborted"
            /\ err' = "query"
            /\ loaded_batches' = loaded_batches
  /\ UNCHANGED <<Env, table, connUp, run, ids, idx, out, before, dropIdx,
                 prev>>

\* line 56: get_batch_ids(), evaluated once before the first iteration
get_batch_ids ==
  /\ pc = "discover"
  /\ \E net \in BOOLEAN :
       IF BatchIdsOk(batch_list, net)
       THEN /\ ids' = BatchIdsOf(batch_list)
            /\ out' = [i \in 1..Len(BatchIdsOf(batch_list)) |-> Pending]
            /\ pc' = "loop"
            /\ err' = err
       ELSE /\ pc' = "aborted"
            /\ err' = "discover"
            /\ UNCHANGED <<ids, out>>
  /\ idx' = 1
  /\ UNCHANGED <<Env, table, connUp, run, loaded_batches, before, dropIdx,
                 prev>>

\* line 57 raises ValueError: int(batch_id) of a non-integer identifier
BadIdentifier ==
  /\ pc = "loop"
  /\ idx <= Len(ids)
  /\ ~CanInt(ids[idx])
  /\ pc' = "aborted"
  /\ err' = "ValueError"
  /\ UNCHANGED <<Env, table, connUp, run, loaded_batches, ids, idx, out,
                 before, dropIdx, prev>>

\* lines 57-58: the identifier is already loaded
Skip ==
  /\ pc = "loop"
  /\ idx <= Len(ids)
  /\ CanInt(ids[idx])
  /\ AlreadyLoaded(ids[idx], loaded_batches)
  /\ out' = [out EXCEPT ![idx].st = "skipped"]
  /\ idx' = idx + 1
  /\ UNCHANGED <<Env, table, connUp, run, pc, loaded_batches, ids, err,
                 before, dropIdx, prev>>

\* a call that tags and writes a first row before it selects the columns, so
\* that a KeyError leaves that row behind
Appended_BeforeSelect(batch_id, res) ==
  IF res.ok THEN res.rows
  ELSE IF res.stage = "select" /\ CanInt(batch_id)
       THEN <<[c \in TableColumns |->
                 IF c = BATCH_ID THEN IntOf(batch_id) ELSE Cell(batch_id, 1, 0)]>>
       ELSE <<>>

\* the rows a call of ingest_batch leaves in ORDERS: those of the one
\* write_pandas call at line 45 when nothing raised, none otherwise
Appended(batch_id, res) == IF res.ok THEN res.rows ELSE <<>>

\* what one call ingest_batch(batch_id) does to the state, position i of out
DoIngest(batch_id, i, net, wr) ==
  LET res == ingest_batch(batch_id, data_dir, net, wr, connUp)
      lost == res.stage = "write" /\ wr = "drop" /\ connUp
  IN /\ before' = table
     /\ table' = table \o Appended(batch_id, res)
     /\ connUp' = IF lost THEN FALSE ELSE connUp
     /\ dropIdx' = IF lost THEN i ELSE dropIdx
     /\ out' = [out EXCEPT ![i] =
                  [st |-> IF res.ok THEN "ingested" ELSE "failed",
                   stage |-> res.stage,
                   called |-> TRUE,
                   writes |-> IF res.ok THEN 1 ELSE 0,
                   cols |-> res.cols,
                   nrows |-> Len(Appended(batch_id, res)),
                   reported |-> IF res.ok THEN res.reported ELSE -1]]

\* lines 59-61: ingest_batch(batch_id); whatever it raises is caught in it
Ingest ==
  /\ pc = "loop"
  /\ idx <= Len(ids)
  /\ CanInt(ids[idx])
  /\ ~AlreadyLoaded(ids[idx], loaded_batches)
  /\ \E net \in BOOLEAN, wr \in {"ok", "error", "drop"} :
       DoIngest(ids[idx], idx, net, wr)
  /\ idx' = idx + 1
  /\ UNCHANGED <<Env, run, pc, loaded_batches, ids, err, prev>>

\* the for loop is exhausted: __main__ returns
Finish ==
  /\ pc = "loop"
  /\ idx > Len(ids)
  /\ pc' = "done"
  /\ UNCHANGED <<Env, table, connUp, run, loaded_batches, ids, idx, out, err,
                 before, dropIdx, prev>>

\* the loader is executed again: a new process, a new connection, the same
\* API files and the table as the previous execution left it
NextRun ==
  /\ pc \in {"done", "aborted"}
  /\ run < MaxRuns
  /\ run' = run + 1
  /\ prev' = [ids |-> ids, out |-> out, pc |-> pc]
  /\ pc' = "start"
  /\ connUp' = TRUE
  /\ loaded_batches' = {}
  /\ ids' = <<>>
  /\ idx' = 1
  /\ out' = <<>>
  /\ err' = "none"
  /\ dropIdx' = 0
  /\ before' = table
  /\ UNCHANGED <<Env, table>>

Next ==
  \/ get_loaded_batches
  \/ get_batch_ids
  \/ BadIdentifier
  \/ Skip
  \/ Ingest
  \/ Finish
  \/ NextRun

Spec == Init /\ [][Next]_vars

\* ------------------------------------------- ingest_batch called directly
\* the files a direct call of ingest_batch may meet
CallFiles ==
  {NoFile, EmptyFile}
    \cup {CsvFile(h, n) : h \in SeqsUpTo(RawCols, MaxCols), n \in 0..MaxRows}

\* ingest_batch(id) is about to be called on its own, for any identifier and
\* any file under its name
InitCall ==
  /\ batch_list = NoList
  /\ \E id \in IdSet :
       /\ ids = <<id>>
       /\ \E f \in CallFiles :
            data_dir = [l \in DirNames |-> IF l = id THEN f ELSE NoFile]
  /\ table \in InitTables
  /\ connUp = TRUE
  /\ run = 1
  /\ pc = "call"
  /\ loaded_batches = {}
  /\ idx = 1
  /\ out = <<Pending>>
  /\ err = "none"
  /\ before = table
  /\ dropIdx = 0
  /\ prev = [ids |-> <<>>, out |-> <<>>, pc |-> "none"]

\* the call ingest_batch(ids[1]) and its return
Call ==
  /\ pc = "call"
  /\ \E net \in BOOLEAN, wr \in {"ok", "error", "drop"} :
       DoIngest(ids[1], 1, net, wr)
  /\ pc' = "returned"
  /\ UNCHANGED <<Env, run, loaded_batches, ids, idx, err, prev>>

SpecCall == InitCall /\ [][Call]_vars

\* ============================================================== claims
Left(i) == out[i].st \in {"skipped", "ingested", "failed"}

\* C2. Per-batch isolation: when ingest_batch has failed for one position of
\* the discovered list, the run does not end with a later position still
\* pending (every later identifier is processed).
C2_PerBatchIsolation ==
  pc \in {"done", "aborted"} =>
    \A i \in DOMAIN out : \A j \in DOMAIN out :
      (out[i].st = "failed" /\ j > i) => Left(j)

\* C3. Run to exhaustion: once the loaded set is read and the batch list is
\* discovered, no exception leaves the run, and a finished run has every
\* identifier in skipped, ingested or failed.
C3_RunToExhaustion ==
  /\ pc = "aborted" => err \in {"query", "discover"}
  /\ pc = "done" => \A i \in DOMAIN out : Left(i)

C7_FatalPreLoop ==
  /\ err \in {"query", "discover"} =>
       /\ pc = "aborted"
       /\ ids = <<>> /\ out = <<>>
       /\ table = before
  /\ (pc \in {"loop", "done"} \/ err = "ValueError") =>
       /\ batch_list.kind = "csv"
       /\ batch_list.column = h_batch_id
       /\ pc # "loop" \/ loaded_batches \subseteq DistinctBatchIds(table)

\* a batch list without a batch_id column stopped a run over a non-empty table
C7_Witness ==
  /\ err = "discover"
  /\ batch_list.kind = "csv"
  /\ batch_list.column # h_batch_id
  /\ table # <<>>

\* positions of the previous execution whose rows are in ORDERS for sure:
\* skipped there, or ingested there with at least one row
Settled(i) ==
  /\ i \in DOMAIN prev.out
  /\ \/ prev.out[i].st = "skipped"
     \/ prev.out[i].st = "ingested" /\ prev.out[i].nrows >= 1

FirstRows(v) ==
  {k \in DOMAIN table :
     /\ table[k][BATCH_ID] = v
     /\ table[k][ORDER_ID][2] = 1
     /\ table[k][ORDER_ID][3] # 0}

\* in this run ingest_batch was called at most once per batch value, and
\* ORDERS holds at most one loaded payload per batch value
OneLoadPerBatch ==
  /\ \A i \in DOMAIN out : \A j \in DOMAIN out :
       (i # j /\ out[i].called /\ out[j].called) =>
         IntOf(ids[i]) # IntOf(ids[j])
  /\ \A k \in DOMAIN table : Cardinality(FirstRows(table[k][BATCH_ID])) <= 1

\* no two entries of the list get_batch_ids() returns have the same value
UniqueList ==
  LET l == BatchIdsOf(batch_list)
  IN \A i \in DOMAIN l : \A j \in DOMAIN l :
       (i # j /\ CanInt(l[i]) /\ CanInt(l[j])) => IntOf(l[i]) # IntOf(l[j])

\* C5 as stated. No duplicate loads: in one run ingest_batch is called at
\* most once per batch value, and over all runs rows are appended at most
\* once per batch value.
C5_NoDuplicateLoads == OneLoadPerBatch

\* C5 as amended. The same, for a batch list in which no two entries have
\* the same integer value.
C5_NoDuplicateLoadsUniqueList == UniqueList => OneLoadPerBatch

\* two executions over a list of two distinct values, the second one skipping
\* both after the first one loaded both
C5_Witness ==
  /\ run = 2 /\ pc = "done" /\ Len(ids) = 2 /\ UniqueList
  /\ Len(prev.out) = 2
  /\ \A i \in DOMAIN prev.out :
       prev.out[i].st = "ingested" /\ prev.out[i].nrows = 1
  /\ \A i \in DOMAIN out : out[i].st = "skipped"
  /\ Cardinality(FirstRows(1)) = 1 /\ Cardinality(FirstRows(2)) = 1

PreWrite == {"fetch", "parse", "int", "select"}

\* a call that failed before line 45 left ORDERS as it was
UntouchedByFailure ==
  \A i \in DOMAIN out :
    (out[i].st = "failed" /\ out[i].stage \in PreWrite) =>
      /\ out[i].nrows = 0
      /\ i = idx - 1 => table = before

\* position i of the previous execution failed before the write
FailedEarly(i) ==
  /\ i \in DOMAIN prev.out
  /\ prev.out[i].st = "failed"
  /\ prev.out[i].stage \in PreWrite

\* no other entry of the previous list has the value of entry i
AloneInList(i) ==
  \A k \in DOMAIN prev.ids :
    (k # i /\ CanInt(prev.ids[k])) => IntOf(prev.ids[k]) # IntOf(prev.ids[i])

\* C10 as stated. A call that fails before the write leaves ORDERS untouched;
\* its identifier is not in the loaded set the next execution reads, and that
\* execution passes it to ingest_batch again.
C10_FailBeforeWrite ==
  /\ UntouchedByFailure
  /\ (run >= 2 /\ pc # "start" /\ err # "query") =>
       \A i \in DOMAIN prev.out :
         FailedEarly(i) =>
           /\ IntOf(prev.ids[i]) \notin loaded_batches
           /\ (i \in DOMAIN out /\ i < idx) => out[i].called

\* C10 as amended. The same, the part about the next execution for an
\* identifier whose integer value no other entry of the list has.
C10_FailBeforeWriteUnique ==
  /\ UntouchedByFailure
  /\ (run >= 2 /\ pc # "start" /\ err # "query") =>
       \A i \in DOMAIN prev.out :
         (FailedEarly(i) /\ AloneInList(i)) =>
           /\ IntOf(prev.ids[i]) \notin loaded_batches
           /\ (i \in DOMAIN out /\ i < idx) => out[i].called

\* a payload without an amount column failed at the column selection in the
\* first execution and was requested again in the second
C10_Witness ==
  /\ run = 2 /\ pc = "done" /\ Len(ids) = 2 /\ Len(prev.out) = 2
  /\ prev.out[2].st = "failed" /\ prev.out[2].stage = "select"
  /\ prev.out[1].st = "ingested"
  /\ out[2].called /\ out[2].stage = "select"
  /\ table # <<>>

\* C8. Successful-ingest postcondition: after ingest_batch(id) has succeeded
\* on a payload of N data rows, ORDERS is what it was plus exactly N rows,
\* added by one append, each with BATCH_ID = int(id), and N is the count
\* reported.
C8_IngestPostcondition ==
  (pc = "returned" /\ out[1].st = "ingested") =>
    LET N == data_dir[ids[1]].nrows
    IN /\ Len(table) = Len(before) + N
       /\ SubSeq(table, 1, Len(before)) = before
       /\ \A k \in (Len(before) + 1)..Len(table) :
            table[k][BATCH_ID] = IntOf(ids[1])
       /\ out[1].writes = 1
       /\ out[1].nrows = N
       /\ out[1].reported = N

\* identifier "02" with a payload of two rows was ingested into a table that
\* already held rows
C8_Witness ==
  /\ pc = "returned" /\ out[1].st = "ingested"
  /\ ids[1] = <<"0", "2">>
  /\ data_dir[ids[1]].nrows = 2
  /\ before # <<>>
  /\ Len(table) = Len(before) + 2

\* the header columns that spell order_id, resp. amount, up to case and
\* surrounding whitespace
OrderColumns(h) == {j \in 1..Len(h) : h[j] \in {h_order_id_sp, h_Order_Id_tab}}
AmountColumns(h) == {j \in 1..Len(h) : h[j] = h_Amount}

\* C9. Column normalization: every append carries exactly the columns
\* BATCH_ID, ORDER_ID, AMOUNT in that order and every stored row has those
\* columns only; a payload with one column spelling order_id and one spelling
\* amount, up to case and surrounding whitespace, never fails at parsing or
\* column selection, and when it is ingested ORDER_ID and AMOUNT hold the
\* values of those two source columns.
C9_ColumnNormalization ==
  pc = "returned" =>
    LET id == ids[1]
        f == data_dir[id]
    IN /\ out[1].writes > 0 => out[1].cols = Selected
       /\ \A k \in DOMAIN table : DOMAIN table[k] = TableColumns
       /\ (/\ f.kind = "csv" /\ CanInt(id)
           /\ Cardinality(OrderColumns(f.header)) = 1
           /\ Cardinality(AmountColumns(f.header)) = 1) =>
            /\ out[1].st = "failed" => out[1].stage \in {"fetch", "write"}
            /\ out[1].st = "ingested" =>
                 \A r \in 1..f.nrows :
                   LET row == table[Len(before) + r]
                   IN /\ \E j \in OrderColumns(f.header) :
                           row[ORDER_ID] = Cell(id, r, j)
                      /\ \E j \in AmountColumns(f.header) :
                           row[AMOUNT] = Cell(id, r, j)

\* the payload " order_id ", "Amount" of the spec, with a further column in
\* front, was ingested
C9_Witness ==
  /\ pc = "returned" /\ out[1].st = "ingested"
  /\ data_dir[ids[1]].header = <<h_note, h_order_id_sp, h_Amount>>
  /\ data_dir[ids[1]].nrows = 1
  /\ table[Len(table)][ORDER_ID] = Cell(ids[1], 1, 2)
  /\ table[Len(table)][AMOUNT] = Cell(ids[1], 1, 3)

====
